---- MODULE Spec2Model ----
(***************************************************************************)
(* EOS-80 equation of state of seawater (pyeos80.py).                      *)
(*                                                                         *)
(* The library is a set of pure functions over Python floats.  Python      *)
(* floats are IEEE-754 binary64 numbers, so every +, -, *, / and ** of the *)
(* source is modelled here as the correctly rounded binary64 operation     *)
(* (round to nearest, ties to even) on an exact (sign, mantissa, exponent) *)
(* triple.  TLC integers are 32 bits wide, so the 53-bit mantissas and the *)
(* exact intermediate products are kept as little-endian sequences of      *)
(* 15-bit limbs.                                                           *)
(***************************************************************************)
EXTENDS Integers, Sequences, FiniteSets, TLC

(***************************************************************************)
(* Let(x, F) is F(x) with x computed once, before F's body is read: the    *)
(* sequential "v = x; ... v ... v ..." of the source.  (TLC computes an    *)
(* operator's argument again at every use of the parameter.)               *)
(***************************************************************************)
Let(x, F(_)) == CHOOSE r \in {F(v) : v \in {x}} : TRUE

Let2(x, y, F(_, _)) == CHOOSE r \in {F(v, w) : v \in {x}, w \in {y}} : TRUE

Let3(x, y, z, F(_, _, _)) ==
    CHOOSE r \in {F(u, v, w) : u \in {x}, v \in {y}, w \in {z}} : TRUE

(***************************************************************************)
(* Natural numbers of arbitrary size: <<>> is 0, a[1] the least limb.      *)
(* TLC's stack allows only shallow recursion, so the carries of a sum are  *)
(* found by lookahead rather than limb after limb.                         *)
(***************************************************************************)
LimbBits == 10 + 5

Base == 2^LimbBits

Limb(a, i) == IF i >= 1 /\ i <= Len(a) THEN a[i] ELSE 0

MaxOf(x, y) == IF x >= y THEN x ELSE y

MinOf(x, y) == IF x <= y THEN x ELSE y

SetMax(S) == CHOOSE m \in S : \A j \in S : j <= m

\* a without its leading zero limbs
BNorm(x) ==
    Let(x, LAMBDA a :
    Let({i \in 1..Len(a) : a[i] # 0}, LAMBDA nz :
        IF nz = {} THEN <<>> ELSE SubSeq(a, 1, SetMax(nz))))

BFromInt(n) == BNorm(<<n % Base, (n \div Base) % Base, n \div (Base * Base)>>)

\* the number whose limbs are t[i] <= 2 * Base - 2: position i takes a carry
\* when a lower position j overflows and every position between passes it on
BCarry(x) ==
    Let(x, LAMBDA t :
        BNorm([i \in 1..Len(t) + 1 |->
            LET c == IF \E j \in 1..i - 1 :
                          /\ t[j] >= Base
                          /\ \A k \in j + 1..i - 1 : t[k] >= Base - 1
                     THEN 1 ELSE 0
            IN  (Limb(t, i) + c) % Base]))

BAdd(x, y) ==
    Let2(x, y, LAMBDA a, b :
        BCarry([i \in 1..MaxOf(Len(a), Len(b)) |-> Limb(a, i) + Limb(b, i)]))

\* a - b for a >= b: position i lends when a lower position j is short and
\* no position between has anything to spare
BSub(x, y) ==
    Let2(x, y, LAMBDA a, b :
    Let([i \in 1..Len(a) |-> a[i] - Limb(b, i)], LAMBDA d :
        BNorm([i \in 1..Len(a) |->
            LET c == IF \E j \in 1..i - 1 :
                          /\ d[j] < 0
                          /\ \A k \in j + 1..i - 1 : d[k] <= 0
                     THEN 1 ELSE 0
            IN  (d[i] - c) % Base])))

\* -1, 0, 1 as a < b, a = b, a > b (both without leading zero limbs)
BCmp(x, y) ==
    Let2(x, y, LAMBDA a, b :
        IF Len(a) < Len(b) THEN -1
        ELSE IF Len(a) > Len(b) THEN 1
        ELSE Let({i \in 1..Len(a) : a[i] # b[i]}, LAMBDA df :
             IF df = {} THEN 0
             ELSE IF a[SetMax(df)] < b[SetMax(df)] THEN -1 ELSE 1))

\* the number whose limbs are t[i] < 2^30: the high half of each limb moves
\* up one position
BWide(x) ==
    Let(x, LAMBDA t :
        BCarry([i \in 1..Len(t) + 1 |-> (Limb(t, i) % Base) + (Limb(t, i - 1) \div Base)]))

\* a * d for one limb d
BMulLimb(x, d) ==
    Let(x, LAMBDA a : IF d = 0 THEN <<>> ELSE BWide([i \in 1..Len(a) |-> a[i] * d]))

RECURSIVE SumTo(_, _)
SumTo(f, n) == IF n = 0 THEN 0 ELSE f[n] + SumTo(f, n - 1)

\* column k of the product a * b: the low and the high halves of the limb
\* products a[i] * b[k + 1 - i], each half summed apart (a limb product fills
\* an integer of TLC)
Column(a, b, k, high) ==
    Let([i \in 1..Len(a) |->
            LET p == a[i] * Limb(b, k + 1 - i)
            IN  IF high THEN p \div Base ELSE p % Base], LAMBDA f : SumTo(f, Len(a)))

BMul(x, y) ==
    Let2(x, y, LAMBDA a, b :
        IF a = <<>> \/ b = <<>> THEN <<>>
        ELSE BWide([k \in 1..Len(a) + Len(b) |->
                 Column(a, b, k, FALSE) + Column(a, b, k - 1, TRUE)]))

Zeros(q) == [i \in 1..q |-> 0]

\* a * 2^n
BShl(x, n) ==
    Let(x, LAMBDA a :
        IF a = <<>> THEN <<>>
        ELSE Zeros(n \div LimbBits) \o BMulLimb(a, 2^(n % LimbBits)))

\* floor(a / 2^n)
BShr(x, n) ==
    Let(x, LAMBDA a :
        LET q == n \div LimbBits
            r == n % LimbBits
            k == Len(a) - q
        IN  IF k <= 0 THEN <<>>
            ELSE BNorm([i \in 1..k |->
                     (a[i + q] \div 2^r) + (Limb(a, i + q + 1) % 2^r) * 2^(LimbBits - r)]))

\* a mod 2^n = 0
BLowZero(x, n) ==
    Let(x, LAMBDA a :
        LET q == n \div LimbBits
            r == n % LimbBits
        IN  /\ \A i \in 1..q : Limb(a, i) = 0
            /\ Limb(a, q + 1) % 2^r = 0)

\* bit i of a, bit 0 the least
BBit(a, i) == (Limb(a, i \div LimbBits + 1) \div 2^(i % LimbBits)) % 2

\* the number of bits of a limb n > 0
IntBitLen(n) == CHOOSE k \in 1..LimbBits : 2^(k - 1) <= n /\ n < 2^k

BBitLen(x) ==
    Let(x, LAMBDA a :
        IF a = <<>> THEN 0 ELSE LimbBits * (Len(a) - 1) + IntBitLen(a[Len(a)]))

\* the next digit of a long division: the largest q with q * D <= R, where
\* R < Base * D and D's top limb is at least Base / 2, so that the quotient of
\* the top limbs is q, q + 1 or q + 2
Digit(R, D) ==
    Let(MinOf(Base - 1,
              (Limb(R, Len(D) + 1) * Base + Limb(R, Len(D))) \div D[Len(D)]), LAMBDA g :
        IF BCmp(BMulLimb(D, g), R) <= 0 THEN g
        ELSE IF BCmp(BMulLimb(D, g - 1), R) <= 0 THEN g - 1
        ELSE g - 2)

\* one step of a long division: <<the next digit, the next remainder>> as
\* limb n of the dividend comes down to the remainder R
DivStep(n, D, R) ==
    Let(BNorm(<<n>> \o R), LAMBDA R1 :
    Let(Digit(R1, D), LAMBDA q : <<q, BSub(R1, BMulLimb(D, q))>>))

\* <<quotient, remainder>> of N / D once the limbs above i of N are divided:
\* Q the quotient and R the remainder so far
RECURSIVE DivFrom(_, _, _, _, _)
DivFrom(N, D, i, Q, R) ==
    IF i = 0 THEN <<BNorm(Q), R>>
    ELSE Let(DivStep(N[i], D, R), LAMBDA st :
             DivFrom(N, D, i - 1, <<st[1]>> \o Q, st[2]))

\* <<floor(N / D), N mod D>> for D > 0
BDivMod(X, Y) ==
    Let(LimbBits - IntBitLen(Y[Len(Y)]), LAMBDA sh :
    Let2(BShl(X, sh), BShl(Y, sh), LAMBDA N, D :
    Let(MinOf(Len(N), Len(D) - 1), LAMBDA top :
    Let(DivFrom(N, D, Len(N) - top, <<>>, SubSeq(N, Len(N) - top + 1, Len(N))), LAMBDA qr :
        <<qr[1], BShr(qr[2], sh)>>))))

(***************************************************************************)
(* Python values.  A float is (-1)^s * m * 2^e with m = 0 (zero) or        *)
(* 2^52 <= m < 2^53; the sign of zero is not kept (Python's == and / do    *)
(* not tell -0.0 from 0.0).  The exponent is not limited: the inputs of    *)
(* the model stay far from overflow and underflow.  A complex result is    *)
(* kept as its type alone, and a raised exception as its class: either     *)
(* one passes through every later operation of the call.                   *)
(***************************************************************************)
MantBits == 50 + 3

Fl(s, m, e) == [k |-> "float", s |-> s, m |-> m, e |-> e]

FZero == Fl(0, <<>>, 0)

Complex == [k |-> "complex", s |-> 0, m |-> <<>>, e |-> 0]

ZeroDivisionError == [k |-> "ZeroDivisionError", s |-> 0, m |-> <<>>, e |-> 0]

IsFloat(x) == x.k = "float"

IsRaised(x) == x.k = "ZeroDivisionError"

\* the result of a binary operation one of whose operands is not a float
Special(a, b) == IF IsRaised(a) THEN a ELSE IF IsRaised(b) THEN b ELSE Complex

\* a quotient of MantBits + 1 bits, its least bit the carry of the rounding
RoundCarry(s, q, E) ==
    IF BBitLen(q) > MantBits THEN Fl(s, BShr(q, 1), E + 1) ELSE Fl(s, q, E)

\* (-1)^s * M * 2^E rounded to nearest, ties to even
Round(s, X, E) ==
    Let(X, LAMBDA M :
    Let(BBitLen(M), LAMBDA L :
        IF L = 0 THEN FZero
        ELSE IF L <= MantBits THEN Fl(s, BShl(M, MantBits - L), E - (MantBits - L))
        ELSE Let(BShr(M, L - MantBits), LAMBDA q :
             LET sh == L - MantBits
                 up == /\ BBit(M, sh - 1) = 1
                       /\ (~BLowZero(M, sh - 1) \/ BBit(q, 0) = 1)
             IN  RoundCarry(s, IF up THEN BAdd(q, <<1>>) ELSE q, E + sh))))

\* a Python int (or an integral float literal) as a float
FromInt(n) == IF n < 0 THEN Round(1, BFromInt(-n), 0) ELSE Round(0, BFromInt(n), 0)

FNeg(x) == Let(x, LAMBDA a : IF IsFloat(a) /\ a.m # <<>> THEN Fl(1 - a.s, a.m, a.e) ELSE a)

\* a * b
FMul(x, y) ==
    Let2(x, y, LAMBDA a, b :
        IF ~(IsFloat(a) /\ IsFloat(b)) THEN Special(a, b)
        ELSE Round((a.s + b.s) % 2, BMul(a.m, b.m), a.e + b.e))

\* a + b for floats a, b with a.e >= b.e, neither zero
FAddAligned(a, b) ==
    IF a.e - b.e > MantBits + 3 THEN a
    ELSE Let(BShl(a.m, a.e - b.e), LAMBDA A :
         Let(BCmp(A, b.m), LAMBDA c :
             IF a.s = b.s THEN Round(a.s, BAdd(A, b.m), b.e)
             ELSE IF c = 0 THEN FZero
             ELSE IF c > 0 THEN Round(a.s, BSub(A, b.m), b.e)
             ELSE Round(b.s, BSub(b.m, A), b.e)))

\* a + b
FAdd(x, y) ==
    Let2(x, y, LAMBDA a, b :
        IF ~(IsFloat(a) /\ IsFloat(b)) THEN Special(a, b)
        ELSE IF a.m = <<>> THEN b
        ELSE IF b.m = <<>> THEN a
        ELSE IF a.e >= b.e THEN FAddAligned(a, b)
        ELSE FAddAligned(b, a))

\* a - b
FSub(x, y) == FAdd(x, FNeg(y))

\* a / b for floats a, b, neither zero
FDivBits(a, b) ==
    Let(BDivMod(BShl(a.m, MantBits + 3), b.m), LAMBDA qr :
        Round((a.s + b.s) % 2,
              BAdd(BMulLimb(qr[1], 2), IF qr[2] = <<>> THEN <<>> ELSE <<1>>),
              a.e - b.e - (MantBits + 4)))

\* a / b: float division by zero raises ZeroDivisionError
FDiv(x, y) ==
    Let2(x, y, LAMBDA a, b :
        IF ~(IsFloat(a) /\ IsFloat(b)) THEN Special(a, b)
        ELSE IF b.m = <<>> THEN ZeroDivisionError
        ELSE IF a.m = <<>> THEN FZero
        ELSE FDivBits(a, b))

\* one step of Newton's iteration for the square root of N
Newton(N, x) == Let(x, LAMBDA r : BShr(BAdd(r, BDivMod(N, r)[1]), 1))

\* <<floor(sqrt(N)), N - floor(sqrt(N))^2>> for N of at least 30 bits: s is
\* even and leaves N's top 13 or 14 bits, whose root + 1 starts the iteration
\* from above with 6 bits right, and each step doubles them
ISqrt(X) ==
    Let(X, LAMBDA N :
    Let(2 * ((BBitLen(N) - 13) \div 2), LAMBDA s :
    Let(BShr(N, s)[1], LAMBDA top :
    Let(CHOOSE g \in 1..2^7 : g * g > top /\ (g - 1) * (g - 1) <= top, LAMBDA g :
    Let(Newton(N, Newton(N, Newton(N, Newton(N, Newton(N, BShl(<<g>>, s \div 2)))))),
        LAMBDA r :
    Let(CHOOSE c \in {BSub(r, <<1>>), r, BAdd(r, <<1>>)} :
            BCmp(BMul(c, c), N) <= 0 /\ BCmp(BMul(BAdd(c, <<1>>), BAdd(c, <<1>>)), N) > 0,
        LAMBDA c : <<c, BSub(N, BMul(c, c))>>))))))

RECURSIVE BPow(_, _)
BPow(a, h) == IF h = 0 THEN <<1>> ELSE BMul(a, BPow(a, h - 1))

\* sqrt(M0 * 2^E0), M0 * 2^E0 brought to N * 2^(E0 - t) with E0 - t even and
\* N of 108 or 109 bits
SqrtRounded(M0, E0) ==
    Let(2 * MantBits + 2 - BBitLen(M0), LAMBDA t0 :
    Let(IF (E0 - t0) % 2 = 0 THEN t0 ELSE t0 + 1, LAMBDA t :
    Let(ISqrt(IF t >= 0 THEN BShl(M0, t) ELSE BShr(M0, -t)), LAMBDA rr :
        LET lost == t < 0 /\ ~BLowZero(M0, -t)
            st   == IF rr[2] # <<>> \/ lost THEN <<1>> ELSE <<>>
        IN  Round(0, BAdd(BMulLimb(rr[1], 2), st), (E0 - t) \div 2 - 1))))

\* x ** (h/2) for h = 1 (x**.5) and h = 3 (x**1.5), correctly rounded; a
\* negative base with a fractional exponent gives a complex number in Python 3
FPowHalves(y, h) ==
    Let(y, LAMBDA x :
        IF ~IsFloat(x) THEN x
        ELSE IF x.m = <<>> THEN FZero
        ELSE IF x.s = 1 THEN Complex
        ELSE Let(BPow(x.m, h), LAMBDA M0 : SqrtRounded(M0, h * x.e)))

\* the sign of a float: -1, 0, 1
FSign(a) == IF a.m = <<>> THEN 0 ELSE IF a.s = 1 THEN -1 ELSE 1

\* a < b and a <= b on floats
FLt(a, b) == Let(FSub(a, b), LAMBDA d : FSign(d) < 0)

FLe(a, b) == Let(FSub(a, b), LAMBDA d : FSign(d) <= 0)

\* 10^k for k <= 22, in factors that fit an integer of TLC
BPow10(k) ==
    BMul(BFromInt(10^MinOf(k, 8)),
         BMul(BFromInt(10^MinOf(MaxOf(k - 8, 0), 8)), BFromInt(10^MaxOf(k - 16, 0))))

\* the float literal n * 10^-k (n below 2^53, k at most 22: both n and 10^k
\* are floats, and the literal is their correctly rounded quotient)
Dec(n, k) == FDiv(FromInt(n), Round(0, BPow10(k), 0))

\* the float literal (hi * 10^8 + lo) * 10^-k, for a literal of more digits
\* than an integer of TLC holds
Dec2(hi, lo, k) ==
    Let2(BMul(BFromInt(hi), BFromInt(10^8)), BFromInt(lo), LAMBDA h, l :
        Let2(BAdd(h, l), BPow10(k), LAMBDA n, d :
            Let2(Round(0, n, 0), Round(0, d, 0), LAMBDA a, b : FDiv(a, b))))

FAbs(x) == Let(x, LAMBDA a : IF IsFloat(a) THEN Fl(0, a.m, IF a.m = <<>> THEN 0 ELSE a.e) ELSE a)

(***************************************************************************)
(* The module-level constants of pyeos80.py, as the float literals the     *)
(* source writes.                                                          *)
(***************************************************************************)
T68SCL == Dec(100024, 5)

DB2KPA == Dec(1, 1)

SECKPURE0 ==
    <<Dec(1965221, 2), Dec(1484206, 4), Dec(-2327105, 6), Dec(1360477, 8),
      Dec(-5155288, 11)>>

SECKPURE1 == <<Dec(3239908, 6), Dec(143713, 8), Dec(116092, 9), Dec(-577905, 12)>>

SECKPURE2 == <<Dec(850935, 10), Dec(-612293, 11), Dec(52787, 12)>>

SECK02 == <<Dec(546746, 4), Dec(-603459, 6), Dec(109987, 7), Dec(-61670, 9)>>

SECK03 == <<Dec(7944, 5), Dec(16483, 6), Dec(-53009, 8)>>

SECK12 == <<Dec(22838, 7), Dec(-10981, 9), Dec(-16078, 10)>>

SECK13 == Dec(191075, 9)

SECK2 == <<Dec(-99348, 11), Dec(20816, 12), Dec(91697, 14)>>

SMOW ==
    <<Dec(999842594, 6), Dec(6793952, 8), Dec(-9095290, 9), Dec(1001685, 10),
      Dec(-1120083, 12), Dec(6536332, 15)>>

DENS02 ==
    <<Dec(824493, 6), Dec(-40899, 7), Dec(76438, 9), Dec(-82467, 11),
      Dec(53875, 13)>>

DENS03 == <<Dec(-572466, 8), Dec(10227, 8), Dec(-16546, 10)>>

DENS04 == Dec(48314, 8)

\* the module namespace once pyeos80.py is imported
ModuleGlobals ==
    [T68SCL |-> T68SCL, DB2KPA |-> DB2KPA,
     SECKPURE0 |-> SECKPURE0, SECKPURE1 |-> SECKPURE1, SECKPURE2 |-> SECKPURE2,
     SECK02 |-> SECK02, SECK03 |-> SECK03, SECK12 |-> SECK12, SECK13 |-> SECK13,
     SECK2 |-> SECK2, SMOW |-> SMOW,
     DENS02 |-> DENS02, DENS03 |-> DENS03, DENS04 |-> DENS04]

VARIABLES
    globals,    \* the module-level names of pyeos80.py and their values
    pc,         \* "idle": no call under way; "returned": a call has ended
    call,       \* the last call: the function's name and its arguments
    ret,        \* what the last call returned or raised
    seen        \* the calls logged so far, each with its result

vars == <<globals, pc, call, ret, seen>>

(***************************************************************************)
(* The functions of pyeos80.py.                                            *)
(***************************************************************************)
\* the loop of poly1d: y = y*x + coef for coefs[i], coefs[i-1], ..., coefs[1]
RECURSIVE Horner(_, _, _, _)
Horner(x, coefs, i, y) ==
    IF i = 0 THEN y
    ELSE Let(FAdd(FMul(y, x), coefs[i]), LAMBDA y2 : Horner(x, coefs, i - 1, y2))

Reversed(coefs) == [i \in 1..Len(coefs) |-> coefs[Len(coefs) + 1 - i]]

\* seeded fault: the loop takes the coefficients in the order given, lowest
\* first, as "for coef in coefs" would
poly1d_forward(x0, coefs0) ==
    Let2(x0, coefs0, LAMBDA x, coefs :
        Horner(x, Reversed(coefs), Len(coefs), FZero))

poly1d(x0, coefs0) ==
    Let2(x0, coefs0, LAMBDA x, coefs : Horner(x, coefs, Len(coefs), FZero))

calseckpure0(t68) == poly1d(t68, globals.SECKPURE0)

calseckpure1(t68) == poly1d(t68, globals.SECKPURE1)

calseckpure2(t68) == poly1d(t68, globals.SECKPURE2)

\* seeded fault: the temperature, already on ITS-68, is scaled again
calseck0_rescaled(spsu, t68in) ==
    Let(FMul(t68in, globals.T68SCL), LAMBDA t68 :
    Let3(calseckpure0(t68), poly1d(t68, globals.SECK02), poly1d(t68, globals.SECK03),
         LAMBDA k0, k2, k3 :
             FAdd(FAdd(k0, FMul(k2, spsu)), FMul(k3, FPowHalves(spsu, 3)))))

calseck0(spsu, t68) ==
    Let3(calseckpure0(t68), poly1d(t68, globals.SECK02), poly1d(t68, globals.SECK03),
         LAMBDA k0, k2, k3 :
             FAdd(FAdd(k0, FMul(k2, spsu)), FMul(k3, FPowHalves(spsu, 3))))

calseck1(spsu, t68) ==
    Let2(calseckpure1(t68), poly1d(t68, globals.SECK12), LAMBDA a0, a2 :
        FAdd(FAdd(a0, FMul(a2, spsu)), FMul(globals.SECK13, FPowHalves(spsu, 3))))

calseck2(spsu, t68) ==
    Let2(calseckpure2(t68), poly1d(t68, globals.SECK2), LAMBDA b0, b2 :
        FAdd(b0, FMul(b2, spsu)))

\* seeded fault: the coefficients of the pressure polynomial highest first
calseck_descending(spsu, t90, pdb) ==
    Let2(FMul(t90, globals.T68SCL), FMul(pdb, globals.DB2KPA), LAMBDA t68, pkpa :
    Let3(calseck0(spsu, t68), calseck1(spsu, t68), calseck2(spsu, t68),
         LAMBDA k0, a, b : poly1d(pkpa, <<b, a, k0>>)))

calseck(spsu, t90, pdb) ==
    Let2(FMul(t90, globals.T68SCL), FMul(pdb, globals.DB2KPA), LAMBDA t68, pkpa :
    Let3(calseck0(spsu, t68), calseck1(spsu, t68), calseck2(spsu, t68),
         LAMBDA k0, a, b : poly1d(pkpa, <<k0, a, b>>)))

caldsmow(t90) ==
    Let(FMul(t90, globals.T68SCL), LAMBDA t68 : poly1d(t68, globals.SMOW))

\* seeded fault: caldsmow, which scales its argument itself, is handed t68
caldens0_smow_t68(spsu, t90) ==
    Let2(FPowHalves(spsu, 1), FMul(t90, globals.T68SCL), LAMBDA sqrts, t68 :
    Let3(caldsmow(t68), poly1d(t68, globals.DENS02), poly1d(t68, globals.DENS03),
         LAMBDA dsmow, b, c :
             poly1d(sqrts, <<dsmow, FZero, b, c, globals.DENS04>>)))

caldens0(spsu, t90) ==
    Let2(FPowHalves(spsu, 1), FMul(t90, globals.T68SCL), LAMBDA sqrts, t68 :
    Let3(caldsmow(t90), poly1d(t68, globals.DENS02), poly1d(t68, globals.DENS03),
         LAMBDA dsmow, b, c :
             poly1d(sqrts, <<dsmow, FZero, b, c, globals.DENS04>>)))

\* seeded fault: calseck, which converts the pressure itself, is handed pkpa
caldens_pkpa_twice(spsu, t90, pdb) ==
    Let(FMul(pdb, globals.DB2KPA), LAMBDA pkpa :
    Let2(caldens0(spsu, t90), calseck(spsu, t90, pkpa), LAMBDA dens0, seck :
        FDiv(dens0, FSub(FromInt(1), FDiv(pkpa, seck)))))

\* seeded fault: the pressure is not converted where the density is formed
caldens_unconverted(spsu, t90, pdb) ==
    Let2(caldens0(spsu, t90), calseck(spsu, t90, pdb), LAMBDA dens0, seck :
        FDiv(dens0, FSub(FromInt(1), FDiv(pdb, seck))))

\* seeded fault: the sign of the compression term
caldens_plus(spsu, t90, pdb) ==
    Let3(caldens0(spsu, t90), calseck(spsu, t90, pdb), FMul(pdb, globals.DB2KPA),
         LAMBDA dens0, seck, pkpa :
             FDiv(dens0, FAdd(FromInt(1), FDiv(pkpa, seck))))

caldens(spsu, t90, pdb) ==
    Let3(caldens0(spsu, t90), calseck(spsu, t90, pdb), FMul(pdb, globals.DB2KPA),
         LAMBDA dens0, seck, pkpa :
             FDiv(dens0, FSub(FromInt(1), FDiv(pkpa, seck))))

(***************************************************************************)
(* The arguments the calls are made with.  The functions take any Python   *)
(* number; the model draws them from these lists, the first NumS, NumT,    *)
(* NumP entries of each.                                                   *)
(***************************************************************************)
NumS == 3

NumT == 2

NumP == 5

MaxX == 2

MaxC == 1

MaxLen == 3

\* practical salinity
SALT == <<FromInt(35), FromInt(0), FromInt(-1), FromInt(4), FromInt(10), FromInt(40)>>

\* temperature, degrees Celsius (ITS-90)
TEMP == <<FromInt(25), FromInt(0), FromInt(10), FromInt(40), FromInt(-2)>>

\* pressure, decibar
PRES ==
    <<FromInt(0), FromInt(1000), FromInt(10000), FromInt(1000000),
      Dec2(75216393, 99472934, 10), FromInt(5000), FromInt(100)>>

FirstOf(list, n) == {list[i] : i \in 1..MinOf(n, Len(list))}

Salinities == FirstOf(SALT, NumS)

Temperatures == FirstOf(TEMP, NumT)

Pressures == FirstOf(PRES, NumP)

\* the arguments of poly1d: x = n/2 and integer coefficients, on which float
\* arithmetic is exact
XValues == {Dec(5 * n, 1) : n \in -MaxX..MaxX}

CValues == {FromInt(c) : c \in -MaxC..MaxC}

CoefTables == UNION {[1..n -> CValues] : n \in 0..MaxLen}

NoCall == [fn |-> "none", args |-> <<>>]

Init ==
    /\ globals = ModuleGlobals
    /\ pc = "idle"
    /\ call = NoCall
    /\ ret = FZero
    /\ seen = {}

Call_poly1d(Xs, Cs) ==
    \E x \in Xs, coefs \in Cs :
        /\ pc = "idle"
        /\ call' = [fn |-> "poly1d", args |-> <<x, coefs>>]
        /\ ret' = poly1d(x, coefs)
        /\ pc' = "returned"
        /\ UNCHANGED <<globals, seen>>

Call_calseck(Ss, Ts, Ps) ==
    \E S \in Ss, T \in Ts, P \in Ps :
        /\ pc = "idle"
        /\ call' = [fn |-> "calseck", args |-> <<S, T, P>>]
        /\ ret' = calseck(S, T, P)
        /\ pc' = "returned"
        /\ UNCHANGED <<globals, seen>>

\* seeded fault: the call reverses the table SMOW in place and leaves it so
Call_caldsmow_inplace(Ts) ==
    \E T \in Ts :
        /\ pc = "idle"
        /\ call' = [fn |-> "caldsmow", args |-> <<T>>]
        /\ ret' = caldsmow(T)
        /\ pc' = "returned"
        /\ globals' = [globals EXCEPT !.SMOW = Reversed(@)]
        /\ UNCHANGED seen

Call_caldsmow(Ts) ==
    \E T \in Ts :
        /\ pc = "idle"
        /\ call' = [fn |-> "caldsmow", args |-> <<T>>]
        /\ ret' = caldsmow(T)
        /\ pc' = "returned"
        /\ UNCHANGED <<globals, seen>>

Call_caldens0(Ss, Ts) ==
    \E S \in Ss, T \in Ts :
        /\ pc = "idle"
        /\ call' = [fn |-> "caldens0", args |-> <<S, T>>]
        /\ ret' = caldens0(S, T)
        /\ pc' = "returned"
        /\ UNCHANGED <<globals, seen>>

Call_caldens(Ss, Ts, Ps) ==
    \E S \in Ss, T \in Ts, P \in Ps :
        /\ pc = "idle"
        /\ call' = [fn |-> "caldens", args |-> <<S, T, P>>]
        /\ ret' = caldens(S, T, P)
        /\ pc' = "returned"
        /\ UNCHANGED <<globals, seen>>

\* the caller takes the result and the frame of the call is gone
Return ==
    /\ pc = "returned"
    /\ pc' = "idle"
    /\ call' = NoCall
    /\ ret' = FZero
    /\ UNCHANGED <<globals, seen>>

Next ==
    \/ Call_poly1d(XValues, CoefTables)
    \/ Call_calseck(Salinities, Temperatures, Pressures)
    \/ Call_caldsmow(Temperatures)
    \/ Call_caldens0(Salinities, Temperatures)
    \/ Call_caldens(Salinities, Temperatures, Pressures)
    \/ Return

Spec == Init /\ [][Next]_vars

(***************************************************************************)
(* Sequences of calls with a log.  The caller notes every call it made     *)
(* with the result it got, until the log holds MaxSeen entries.  The calls *)
(* are drawn from a few arguments, so that the same call comes back after  *)
(* other calls were made.                                                  *)
(***************************************************************************)
MaxSeen == 3

LogS == {SALT[1]}

LogT == {TEMP[1], TEMP[2]}

LogP == {PRES[2]}

LogX == {Dec(5, 1)}

LogC == {<<FromInt(1), FromInt(-1), FromInt(1)>>}

ReturnLogged ==
    /\ pc = "returned"
    /\ pc' = "idle"
    /\ seen' = seen \cup {[call |-> call, ret |-> ret]}
    /\ call' = NoCall
    /\ ret' = FZero
    /\ UNCHANGED globals

NextLogged ==
    \/ Cardinality(seen) < MaxSeen /\ Call_poly1d(LogX, LogC)
    \/ Cardinality(seen) < MaxSeen /\ Call_calseck(LogS, LogT, LogP)
    \/ Cardinality(seen) < MaxSeen /\ Call_caldsmow(LogT)
    \/ Cardinality(seen) < MaxSeen /\ Call_caldens0(LogS, LogT)
    \/ Cardinality(seen) < MaxSeen /\ Call_caldens(LogS, LogT, LogP)
    \/ ReturnLogged

SpecLogged == Init /\ [][NextLogged]_vars
(***************************************************************************)
(* Properties.  A call is looked at in the state where it has returned:    *)
(* call holds the function and its arguments, ret what came back.          *)
(***************************************************************************)
IsCall(fn) == pc = "returned" /\ call.fn = fn

One == FromInt(1)

NonNegative(x) == IsFloat(x) /\ FSign(x) >= 0

\* |u - v| <= tol for floats u, v
Near(u, v, tol) ==
    IsFloat(u) /\ IsFloat(v) /\ Let(FAbs(FSub(u, v)), LAMBDA d : FLe(d, tol))

\* u and v agree to a relative 10^-12, the rounding of a few dozen operations
Close(u, v) ==
    IsFloat(u) /\ IsFloat(v) /\
    Let2(FAbs(FSub(u, v)), FMul(Dec(1, 12), FAbs(v)), LAMBDA d, tol : FLe(d, tol))

\* x^n by repeated multiplication
RECURSIVE FPowInt(_, _)
FPowInt(x, n) == IF n = 0 THEN One ELSE FMul(FPowInt(x, n - 1), x)

\* c[1] + c[2]*x + ... + c[n]*x^(n-1), every term formed on its own
RECURSIVE DirectSum(_, _, _)
DirectSum(x, coefs, n) ==
    IF n = 0 THEN FZero
    ELSE Let2(DirectSum(x, coefs, n - 1), FMul(coefs[n], FPowInt(x, n - 1)),
              LAMBDA sum, term : FAdd(sum, term))

\* C1: poly1d(x, coefs) of a non-empty coefs is the sum of coefs[i] * x^i,
\* the first coefficient being the constant term; a single coefficient is
\* returned as it is for every x, and x = 0 returns the first coefficient.
\* On the arguments drawn here float arithmetic is exact, so the two ways
\* of evaluating agree to the bit.
C1_PolySum ==
    IsCall("poly1d") /\ Len(call.args[2]) >= 1 =>
        /\ ret = DirectSum(call.args[1], call.args[2], Len(call.args[2]))
        /\ Len(call.args[2]) = 1 => ret = call.args[2][1]
        /\ call.args[1] = FZero => ret = call.args[2][1]

\* a polynomial of the highest degree drawn, at an x that is neither 0 nor 1,
\* whose value is not its constant term
C1_Witness ==
    /\ IsCall("poly1d")
    /\ Len(call.args[2]) = MaxLen
    /\ call.args[1] \notin {FZero, One}
    /\ call.args[2][MaxLen] # FZero
    /\ call.args[2][1] # call.args[2][MaxLen]
    /\ ret # call.args[2][1]

\* C2: caldens(S, T, P) is caldens0(S, T) / (1 - P*0.1/K) with
\* K = calseck(S, T, P): calseck is handed the pressure in decibar and
\* converts it itself, so the pressure is converted once on each path.
C2_DensityFromModulus ==
    IsCall("caldens") =>
        Let3(caldens0(call.args[1], call.args[2]),
             calseck(call.args[1], call.args[2], call.args[3]),
             FMul(call.args[3], Dec(1, 1)),
             LAMBDA dens0, K, p : ret = FDiv(dens0, FSub(One, FDiv(p, K))))

\* a density under pressure, which differs from the surface density
C2_Witness ==
    /\ IsCall("caldens")
    /\ call.args = <<SALT[1], TEMP[2], PRES[2]>>
    /\ IsFloat(ret)
    /\ ret # caldens0(call.args[1], call.args[2])

\* the secant bulk modulus as the tables give it: k0, a, b at temperature
\* t68 and salinity S, and the polynomial in the pressure p
SeckTerms(S, t68) ==
    Let2(S, FPowHalves(S, 3), LAMBDA s1, s15 :
        <<FAdd(FAdd(poly1d(t68, SECKPURE0), FMul(poly1d(t68, SECK02), s1)),
               FMul(poly1d(t68, SECK03), s15)),
          FAdd(FAdd(poly1d(t68, SECKPURE1), FMul(poly1d(t68, SECK12), s1)),
               FMul(SECK13, s15)),
          FAdd(poly1d(t68, SECKPURE2), FMul(poly1d(t68, SECK2), s1))>>)

\* C3: calseck(S, T, P) = k0 + a*p + b*p^2 with t68 = T * 1.00024 and
\* p = P * 0.1, where k0 = poly(t68, SECKPURE0) + poly(t68, SECK02)*S
\* + poly(t68, SECK03)*S^1.5, a = poly(t68, SECKPURE1) + poly(t68, SECK12)*S
\* + SECK13*S^1.5 and b = poly(t68, SECKPURE2) + poly(t68, SECK2)*S, the
\* temperature scaled once.  The result is the polynomial (k0, a, b)
\* evaluated at p by poly1d, which is the written sum up to rounding.
C3_SecantBulkModulus ==
    IsCall("calseck") =>
        Let2(FMul(call.args[2], Dec(100024, 5)), FMul(call.args[3], Dec(1, 1)),
             LAMBDA t68, p :
                 Let(SeckTerms(call.args[1], t68), LAMBDA kab :
                     /\ ret = poly1d(p, kab)
                     /\ IsFloat(ret) =>
                            Close(ret, FAdd(FAdd(kab[1], FMul(kab[2], p)),
                                            FMul(kab[3], FMul(p, p))))))

\* a modulus of salt water under pressure, where every term takes part
C3_Witness ==
    /\ IsCall("calseck")
    /\ call.args = <<SALT[1], TEMP[1], PRES[3]>>
    /\ IsFloat(ret)
    /\ FLt(calseck0(call.args[1], FMul(call.args[2], T68SCL)), ret)

\* C4: for S >= 0, caldens0(S, T) = dsmow + B*S + C*S^1.5 + D*S^2 with
\* dsmow = caldsmow(T) = poly(T * 1.00024, SMOW), B = poly(t68, DENS02),
\* C = poly(t68, DENS03), D = DENS04: the polynomial (dsmow, 0, B, C, D)
\* evaluated at sqrt(S) by poly1d, which is the written sum up to rounding.
\* caldsmow is handed T and scales it itself, so the scaling is applied once.
C4_SurfaceDensity ==
    IsCall("caldens0") /\ NonNegative(call.args[1]) =>
        Let3(call.args[1], FMul(call.args[2], Dec(100024, 5)), caldsmow(call.args[2]),
             LAMBDA S, t68, dsmow :
                 Let2(poly1d(t68, DENS02), poly1d(t68, DENS03), LAMBDA B, C :
                     /\ dsmow = poly1d(t68, SMOW)
                     /\ ret = poly1d(FPowHalves(S, 1), <<dsmow, FZero, B, C, DENS04>>)
                     /\ Close(ret,
                              FAdd(FAdd(FAdd(dsmow, FMul(B, S)),
                                        FMul(C, FPowHalves(S, 3))),
                                   FMul(DENS04, FMul(S, S))))))

\* the surface density of salt water, above that of pure water
C4_Witness ==
    /\ IsCall("caldens0")
    /\ call.args = <<SALT[1], TEMP[1]>>
    /\ IsFloat(ret)
    /\ FLt(caldsmow(call.args[2]), ret)

\* C5: at P = 0 and S >= 0, caldens(S, T, 0) = caldens0(S, T) where
\* calseck(S, T, 0) is not zero, and calseck(S, T, 0) =
\* calseck0(S, T * 1.00024).
C5_ZeroPressure ==
    /\ IsCall("caldens") /\ call.args[3] = FZero /\ NonNegative(call.args[1])
           /\ calseck(call.args[1], call.args[2], FZero) # FZero
       => ret = caldens0(call.args[1], call.args[2])
    /\ IsCall("calseck") /\ call.args[3] = FZero /\ NonNegative(call.args[1])
       => ret = calseck0(call.args[1], FMul(call.args[2], Dec(100024, 5)))

\* a density of salt water at zero pressure
C5_Witness ==
    /\ IsCall("caldens")
    /\ call.args[3] = FZero
    /\ call.args[1] = SALT[1]
    /\ IsFloat(ret)
    /\ FSign(ret) > 0

\* the arguments of the reference case: S = 35, T = 25, P = 1000
Reference == <<FromInt(35), FromInt(25), FromInt(1000)>>

\* C6 as the code has it: the density at S = 35, T = 25 C, P = 1000 dbar is
\* 1027.611 kg/m^3 to three decimals.  The value near 1062.54 belongs to
\* 10000 dbar (1000 bar), where the code returns 1062.536.
C6_ReferenceDensity ==
    /\ IsCall("caldens") /\ call.args = Reference
       => Near(ret, Dec(1027611, 3), Dec(5, 4))
    /\ IsCall("caldens") /\ call.args = <<FromInt(35), FromInt(25), FromInt(10000)>>
       => Near(ret, Dec(1062536, 3), Dec(5, 4))

\* the reference call has returned a density
C6_Witness == IsCall("caldens") /\ call.args = Reference /\ IsFloat(ret)

\* C6 as stated: the density at S = 35, T = 25 C, P = 1000 dbar is about
\* 1062.538 kg/m^3 (taken here to within 0.01).
C6_AsStated ==
    IsCall("caldens") /\ call.args = Reference
        => Near(ret, Dec(1062538, 3), Dec(1, 2))

\* whether a float is negative
Negative(x) == IsFloat(x) /\ FSign(x) < 0

\* C7 as stated: with a negative salinity the value that comes back is a
\* float NaN; nothing is raised and no complex number is produced.
C7_NegativeSalinityIsNaN ==
    /\ pc = "returned"
    /\ call.fn \in {"caldens0", "calseck", "caldens"}
    /\ Negative(call.args[1])
    => ret.k = "nan"

\* the denominator 1 - P*0.1/K of caldens, K = calseck(S, T, P)
Denominator(S, T, P) ==
    Let2(FMul(P, Dec(1, 1)), calseck(S, T, P), LAMBDA p, K : FSub(One, FDiv(p, K)))

\* C8 as stated: where the denominator of caldens is zero the division
\* follows IEEE-754 and an infinity comes back; nothing is raised.
C8_SingularIsInfinite ==
    IsCall("caldens") /\ Denominator(call.args[1], call.args[2], call.args[3]) = FZero
        => ret.k = "inf"

\* the range EOS-80 is fitted for: salinity 0 to 42, temperature -2 to 40 C,
\* pressure 0 to 10000 dbar
Between(lo, x, hi) == IsFloat(x) /\ FLe(FromInt(lo), x) /\ FLe(x, FromInt(hi))

InOcean(S, T, P) == Between(0, S, 42) /\ Between(-2, T, 40) /\ Between(0, P, 10000)

\* P1 = P2, or P1 at least 1 dbar below P2
Below(P1, P2) == P1 = P2 \/ FLe(FAdd(P1, One), P2)

DensityLe(d1, d2) == IsFloat(d1) /\ IsFloat(d2) /\ FLe(d1, d2)

\* C9 within the fitted range: for S in [0, 42], T in [-2, 40] and pressures
\* 0 <= P1 <= P2 <= 10000 dbar that are equal or at least 1 dbar apart,
\* caldens(S, T, P1) <= caldens(S, T, P2).
C9_MonotoneInRange ==
    IsCall("caldens") /\ InOcean(call.args[1], call.args[2], call.args[3]) =>
        \A P1 \in Pressures :
            NonNegative(P1) /\ Below(P1, call.args[3]) =>
                DensityLe(caldens(call.args[1], call.args[2], P1), ret)

\* the density at the deepest pressure of the range, above a density at a
\* lower pressure drawn
C9_Witness ==
    /\ IsCall("caldens")
    /\ call.args = <<SALT[1], TEMP[1], FromInt(10000)>>
    /\ \E P1 \in Pressures :
           /\ FLt(P1, call.args[3])
           /\ NonNegative(P1)
           /\ Let(caldens(call.args[1], call.args[2], P1), LAMBDA d1 :
                  IsFloat(d1) /\ FLt(d1, ret))

\* C9 as stated: for S >= 0 and all pressures 0 <= P1 <= P2,
\* caldens(S, T, P1) <= caldens(S, T, P2).
C9_MonotoneAllPressures ==
    IsCall("caldens") /\ NonNegative(call.args[1]) /\ NonNegative(call.args[3]) =>
        \A P1 \in Pressures :
            NonNegative(P1) /\ FLe(P1, call.args[3]) =>
                DensityLe(caldens(call.args[1], call.args[2], P1), ret)

\* the calls made so far with their results: the log and the call that has
\* just returned
Made == seen \cup (IF pc = "returned" THEN {[call |-> call, ret |-> ret]} ELSE {})

\* C10: after any sequence of calls the coefficient tables and the scale
\* factors are what the module defined, and a call of the same function
\* with the same arguments has the result of every earlier such call.
C10_TablesAndRepeatedCalls ==
    /\ globals = ModuleGlobals
    /\ \A r1, r2 \in Made : r1.call = r2.call => r1.ret = r2.ret

\* a call made again after another call: the log holds the call that has
\* just returned, with this result, and a call of another function
C10_Witness ==
    /\ pc = "returned"
    /\ [call |-> call, ret |-> ret] \in seen
    /\ \E r \in seen : r.call.fn # call.fn
====
